---- MODULE Spec2Model ----
(***************************************************************************)
(* Model of indexedDbWorker/worker.go: the WorkerHandler that multiplexes  *)
(* tagged, ID-correlated messages between the main thread and a web worker.*)
(*                                                                         *)
(* A registered callback is identified by the serial number of its         *)
(* registration (its position in regLog): every call of RegisterHandler    *)
(* passes its own func value.  Serial 1 is the closure that NewWorkerHandler*)
(* registers for the ready signal.                                         *)
(*                                                                         *)
(* Goroutines interleave freely.  getHandler and RegisterHandler run under *)
(* wh.mux from their first to their last statement, so each is one step;   *)
(* the rest of receiveMessage and SendMessage touches only locals.  A frame*)
(* of the worker enters the model when the message listener is called with *)
(* it; the listener is called for one frame at a time, in channel order.   *)
(***************************************************************************)
EXTENDS Integers, Sequences, FiniteSets, TLC

\* ------------------------------------------------------------------ bounds
\* largest ID that callers pass to RegisterHandler and that unsolicited
\* frames carry (the allocator is free to go beyond it)
MaxID == 1
\* number of operations on a connection in use: calls of RegisterHandler and
\* SendMessage by the application, and frames received by the listener
MaxOps == 4
\* number of frames besides the ready signal that the listener receives
\* while the constructor runs and after it failed
MaxStrays == 1

\* --------------------------------------------------------------- constants
InitID == 0
workerInitialConnectionTimeout == 16
ResponseTimeout == 8

\* Go strings and byte slices are sequences of bytes, written here by their
\* ASCII codes
\* tags (type Tag, tag.go)
ReadyTag == <<82, 101, 97, 100, 121>>         \* "Ready"
EchoTag == <<101, 99, 104, 111>>              \* "echo"
EventTag == <<101, 118, 101, 110, 116>>       \* "event"
Tags == {ReadyTag, EchoTag, EventTag}
\* tags whose handler is deleted after one reception
deleteAfterReceiving == {ReadyTag, EchoTag}

\* tags the application registers on and sends with
UserTags == {EchoTag, EventTag}
IDs == 0..MaxID
\* the nil slice; any other payload is the sequence of its bytes
Nil == <<-1>>
\* payloads are opaque to the transport: requests and their echoes carry
\* "hi", the ready signal "ready", and the k-th event of the stream "P<k>"
Hi == <<104, 105>>
EventPayloads == [k \in 1..5 |-> <<80, 48 + k>>]
Payload(tag, k) ==
    IF tag = ReadyTag THEN <<114, 101, 97, 100, 121>>
    ELSE IF tag = EchoTag THEN Hi
    ELSE EventPayloads[k]

\* serial of the ready closure registered by NewWorkerHandler
ReadyFn == 1

\* ------------------------------------------------------------- Go maps
EmptyMap == [k \in {} |-> 0]
\* m[k] = v
Put(m, k, v) == [x \in (DOMAIN m) \cup {k} |-> IF x = k THEN v ELSE m[x]]
\* delete(m, k)
Delete(m, k) == [x \in (DOMAIN m) \ {k} |-> m[x]]

\* WorkerMessage{Tag, ID, Data}
WorkerMessage(tag, id, data) == [tag |-> tag, id |-> id, data |-> data]

\* ------------------------------------------------ encoding/base64 (Std)
PadChar == 61
\* encodeStd: "A".."Z", "a".."z", "0".."9", "+", "/"
EncodeStd(i) ==
    IF i < 26 THEN 65 + i
    ELSE IF i < 52 THEN 71 + i
    ELSE IF i < 62 THEN i - 4
    ELSE IF i = 62 THEN 43
    ELSE 47
\* decodeMap: the index of the character in the alphabet, -1 if none
DecodeMap(c) ==
    IF c \in 65..90 THEN c - 65
    ELSE IF c \in 97..122 THEN c - 71
    ELSE IF c \in 48..57 THEN c + 4
    ELSE IF c = 43 THEN 62
    ELSE IF c = 47 THEN 63
    ELSE -1

\* base64 that writes no padding (RawStdEncoding)
RECURSIVE EncodeToString_Raw(_)
EncodeToString_Raw(src) ==
    IF Len(src) = 0 THEN <<>>
    ELSE LET b2  == IF Len(src) >= 2 THEN src[2] ELSE 0
             b3  == IF Len(src) >= 3 THEN src[3] ELSE 0
             val == src[1] * 65536 + b2 * 256 + b3
             c1  == EncodeStd(val \div 262144)
             c2  == EncodeStd((val \div 4096) % 64)
             c3  == EncodeStd((val \div 64) % 64)
             c4  == EncodeStd(val % 64)
         IN  IF Len(src) = 1 THEN <<c1, c2>>
             ELSE IF Len(src) = 2 THEN <<c1, c2, c3>>
             ELSE <<c1, c2, c3, c4>>
                  \o EncodeToString_Raw(SubSeq(src, 4, Len(src)))

\* base64.StdEncoding.EncodeToString(src): three bytes to four characters,
\* the last group padded with "="
RECURSIVE EncodeToString(_)
EncodeToString(src) ==
    IF Len(src) = 0 THEN <<>>
    ELSE LET b2  == IF Len(src) >= 2 THEN src[2] ELSE 0
             b3  == IF Len(src) >= 3 THEN src[3] ELSE 0
             val == src[1] * 65536 + b2 * 256 + b3
             c1  == EncodeStd(val \div 262144)
             c2  == EncodeStd((val \div 4096) % 64)
             c3  == EncodeStd((val \div 64) % 64)
             c4  == EncodeStd(val % 64)
         IN  IF Len(src) = 1 THEN <<c1, c2, PadChar, PadChar>>
             ELSE IF Len(src) = 2 THEN <<c1, c2, c3, PadChar>>
             ELSE <<c1, c2, c3, c4>>
                  \o EncodeToString(SubSeq(src, 4, Len(src)))

\* base64.StdEncoding.DecodeString(s): the bytes, or ok = FALSE for a
\* CorruptInputError (a character outside the alphabet, a bad length, bad
\* padding); the unused low bits of the last character are not checked
RECURSIVE DecodeString(_)
DecodeString(s) ==
    IF Len(s) = 0 THEN [ok |-> TRUE, bytes |-> <<>>]
    ELSE IF Len(s) < 4 THEN [ok |-> FALSE, bytes |-> <<>>]
    ELSE LET i1   == DecodeMap(s[1])
             i2   == DecodeMap(s[2])
             i3   == DecodeMap(s[3])
             i4   == DecodeMap(s[4])
             last == Len(s) = 4
             rest == DecodeString(SubSeq(s, 5, Len(s)))
             bad  == [ok |-> FALSE, bytes |-> <<>>]
         IN  IF i1 < 0 \/ i2 < 0 THEN bad
             ELSE IF s[3] = PadChar
             THEN IF s[4] = PadChar /\ last
                  THEN [ok |-> TRUE, bytes |-> <<i1 * 4 + i2 \div 16>>]
                  ELSE bad
             ELSE IF i3 < 0 THEN bad
             ELSE IF s[4] = PadChar
             THEN IF last
                  THEN [ok |-> TRUE,
                        bytes |-> <<i1 * 4 + i2 \div 16,
                                    (i2 % 16) * 16 + i3 \div 4>>]
                  ELSE bad
             ELSE IF i4 < 0 THEN bad
             ELSE IF ~rest.ok THEN bad
             ELSE [ok |-> TRUE,
                   bytes |-> <<i1 * 4 + i2 \div 16,
                               (i2 % 16) * 16 + i3 \div 4,
                               (i3 % 4) * 64 + i4>> \o rest.bytes]

\* ------------------------------------------------------- encoding/json
\* A frame is the text that crosses the channel, kept as what the scanner
\* makes of it: k = "syntax" for text that is not JSON, k = "object" with the
\* members in order (v), or a value that is no object.  A value is a JSON
\* null, an integer literal ("num", v = <<n>>), a number with a fraction or
\* an exponent ("frac"), an integer literal above 2^64 - 1 ("big"), a
\* boolean, or a string ("str", v = its bytes after unquoting).
JNull == [k |-> "null", v |-> <<>>]
JNum(n) == [k |-> "num", v |-> <<n>>]
JStr(bytes) == [k |-> "str", v |-> bytes]
JObject(members) == [k |-> "object", v |-> members]
Member(name, val) == [name |-> name, val |-> val]

\* the keys of the struct tags `json:"tag"`, `json:"id"`, `json:"data"`
TagKey == <<116, 97, 103>>
IDKey == <<105, 100>>
DataKey == <<100, 97, 116, 97>>

\* a byte that is not valid UTF-8 wherever it stands; the other bytes of
\* the strings modelled are ASCII, or spell U+FFFD
InvalidByte == 255
ReplacementChar == <<239, 191, 189>>
ValidUTF8(str) == \A i \in 1..Len(str) : str[i] # InvalidByte

\* the string as Marshal writes it and a decoder reads it back: invalid
\* UTF-8 is replaced by U+FFFD (the escapes are undone by unquoting)
RECURSIVE EncodeString(_)
EncodeString(str) ==
    IF Len(str) = 0 THEN <<>>
    ELSE (IF str[1] = InvalidByte THEN ReplacementChar ELSE <<str[1]>>)
         \o EncodeString(Tail(str))

\* Marshal that writes Data with the unpadded base64 encoding
Marshal_RawStd(msg) ==
    JObject(<<Member(TagKey, JStr(EncodeString(msg.tag))),
              Member(IDKey, JNum(msg.id)),
              Member(DataKey, IF msg.data = Nil THEN JNull
                              ELSE JStr(EncodeToString_Raw(msg.data)))>>)

\* json.Marshal(WorkerMessage): the fields in declaration order, Tag as a
\* string, ID as an integer literal, Data as null when nil and as a base64
\* string otherwise
Marshal(msg) ==
    JObject(<<Member(TagKey, JStr(EncodeString(msg.tag))),
              Member(IDKey, JNum(msg.id)),
              Member(DataKey, IF msg.data = Nil THEN JNull
                              ELSE JStr(EncodeToString(msg.data)))>>)

\* the zero value of `var msg WorkerMessage`
ZeroMessage == WorkerMessage(<<>>, 0, Nil)

\* keys match the struct tags whatever their case
Lower(c) == IF c \in 65..90 THEN c + 32 ELSE c
FoldKey(name) == [i \in 1..Len(name) |-> Lower(name[i])]

\* the decoder keeps the first error and goes on
SaveError(acc, err) ==
    IF acc.err = "nil" THEN [acc EXCEPT !.err = err] ELSE acc

\* one member of the object stored into the struct: a null leaves a string
\* or an integer as it is and makes a slice nil, a value of the wrong kind
\* is an UnmarshalTypeError, an unknown key is skipped
StoreMember(acc, mem) ==
    LET key == FoldKey(mem.name)
        val == mem.val
    IN  IF key = TagKey
        THEN IF val.k = "str" THEN [acc EXCEPT !.msg.tag = val.v]
             ELSE IF val.k = "null" THEN acc
             ELSE SaveError(acc, "UnmarshalTypeError")
        ELSE IF key = IDKey
        THEN IF val.k = "num"
             THEN IF val.v[1] >= 0 THEN [acc EXCEPT !.msg.id = val.v[1]]
                  ELSE SaveError(acc, "UnmarshalTypeError")
             ELSE IF val.k = "null" THEN acc
             ELSE SaveError(acc, "UnmarshalTypeError")
        ELSE IF key = DataKey
        THEN IF val.k = "str"
             THEN LET d == DecodeString(val.v)
                  IN  IF d.ok THEN [acc EXCEPT !.msg.data = d.bytes]
                      ELSE SaveError(acc, "CorruptInputError")
             ELSE IF val.k = "null" THEN [acc EXCEPT !.msg.data = Nil]
             ELSE SaveError(acc, "UnmarshalTypeError")
        ELSE acc

RECURSIVE StoreMembers(_, _)
StoreMembers(acc, members) ==
    IF Len(members) = 0 THEN acc
    ELSE StoreMembers(StoreMember(acc, Head(members)), Tail(members))

\* a decoder that takes every member of the envelope to be required
Unmarshal_Required(frame) ==
    LET r    == StoreMembers([msg |-> ZeroMessage, err |-> "nil"], frame.v)
        keys == {FoldKey(frame.v[i].name) : i \in 1..Len(frame.v)}
    IN  IF frame.k = "syntax"
        THEN [msg |-> ZeroMessage, err |-> "SyntaxError"]
        ELSE IF frame.k # "object"
        THEN [msg |-> ZeroMessage, err |-> "UnmarshalTypeError"]
        ELSE IF ~({TagKey, IDKey, DataKey} \subseteq keys)
        THEN SaveError(r, "MalformedEnvelope")
        ELSE r

\* json.Unmarshal(data, &msg): the message as the call leaves it and the
\* error it returns
Unmarshal(frame) ==
    IF frame.k = "syntax"
    THEN [msg |-> ZeroMessage, err |-> "SyntaxError"]
    ELSE IF frame.k = "null"
    THEN [msg |-> ZeroMessage, err |-> "nil"]
    ELSE IF frame.k # "object"
    THEN [msg |-> ZeroMessage, err |-> "UnmarshalTypeError"]
    ELSE StoreMembers([msg |-> ZeroMessage, err |-> "nil"], frame.v)

VARIABLES
    pc,          \* position of NewWorkerHandler / lifecycle of the connection
    elapsed,     \* time units since the constructor entered its select
    handlers,    \* wh.handlers: Tag -> (ID -> callback)
    handlerIDs,  \* wh.handlerIDs: Tag -> next ID
    regLog,      \* history of RegisterHandler calls; index = callback serial
    readySent,   \* the worker's one ready signal has reached the listener
    log,         \* history of receiveMessage calls with their outcome
    started,     \* handler goroutines that began to run, in that order
    readyDone,   \* handler goroutines whose send on ready was received
    sent,        \* history of SendMessage calls: the envelopes, in call order
    pending,     \* postMessage goroutines spawned and not yet run
    posted,      \* envelopes handed to worker.postMessage, in that order
    codec,       \* an envelope on its way through Marshal and Unmarshal
    termAt,      \* whether Terminate was called, and how far the histories
                 \* had got by then
    mux,         \* wh.mux: the goroutine that holds it
    calls,       \* each goroutine's position in its call on the registry
    db           \* the message store of the storage consumer, and the
                 \* events delivered to it

vars == <<pc, elapsed, handlers, handlerIDs, regLog, readySent, log, started,
          readyDone, sent, pending, posted, codec, termAt, mux, calls, db>>

registry == <<handlers, handlerIDs, regLog>>
outbound == <<sent, pending, posted>>
goroutines == <<started, readyDone>>
\* what the connection's operations leave alone
others == <<mux, calls, db>>
aux == <<codec, termAt, others>>

\* ------------------------------------------------------------- registry
\* getNextID without `wh.handlerIDs[tag]++`
GetNextID_NoIncrement(ids, tag) ==
    LET cur == IF tag \in DOMAIN ids THEN ids[tag] ELSE InitID
    IN  [handlerIDs |-> Put(ids, tag, cur), id |-> cur]

\* getNextID: the next unique ID for the tag
GetNextID(ids, tag) ==
    LET cur == IF tag \in DOMAIN ids THEN ids[tag] ELSE InitID
    IN  [handlerIDs |-> Put(ids, tag, cur + 1), id |-> cur]

\* RegisterHandler that stores an auto-ID handler under the incremented
\* counter while it returns the ID from before the increment
RegisterHandler_WrongSlot(hs, ids, tag, id, autoID, handler) ==
    LET nx    == GetNextID(ids, tag)
        useID == IF autoID THEN nx.id ELSE id
        slot  == IF autoID THEN nx.handlerIDs[tag] ELSE id
        inner == IF tag \in DOMAIN hs THEN hs[tag] ELSE EmptyMap
    IN  [handlers   |-> Put(hs, tag, Put(inner, slot, handler)),
         handlerIDs |-> IF autoID THEN nx.handlerIDs ELSE ids,
         id         |-> useID]

\* RegisterHandler that keeps the handler already registered at the key
RegisterHandler_KeepExisting(hs, ids, tag, id, autoID, handler) ==
    LET nx    == GetNextID(ids, tag)
        useID == IF autoID THEN nx.id ELSE id
        inner == IF tag \in DOMAIN hs THEN hs[tag] ELSE EmptyMap
    IN  [handlers   |-> IF useID \in DOMAIN inner THEN hs
                        ELSE Put(hs, tag, Put(inner, useID, handler)),
         handlerIDs |-> IF autoID THEN nx.handlerIDs ELSE ids,
         id         |-> useID]

\* RegisterHandler that calls getNextID before it looks at autoID
RegisterHandler_AlwaysAllocates(hs, ids, tag, id, autoID, handler) ==
    LET nx    == GetNextID(ids, tag)
        useID == IF autoID THEN nx.id ELSE id
        inner == IF tag \in DOMAIN hs THEN hs[tag] ELSE EmptyMap
    IN  [handlers   |-> Put(hs, tag, Put(inner, useID, handler)),
         handlerIDs |-> nx.handlerIDs,
         id         |-> useID]

\* RegisterHandler(tag, id, autoID, handler)
RegisterHandler(hs, ids, tag, id, autoID, handler) ==
    LET nx    == GetNextID(ids, tag)
        useID == IF autoID THEN nx.id ELSE id
        inner == IF tag \in DOMAIN hs THEN hs[tag] ELSE EmptyMap
    IN  [handlers   |-> Put(hs, tag, Put(inner, useID, handler)),
         handlerIDs |-> IF autoID THEN nx.handlerIDs ELSE ids,
         id         |-> useID]

\* getHandler without the deleteAfterReceiving block
GetHandler_NoDelete(hs, tag, id) ==
    IF tag \notin DOMAIN hs
    THEN [handlers |-> hs, handler |-> 0, err |-> "HandlerNotFound"]
    ELSE IF id \notin DOMAIN hs[tag]
    THEN [handlers |-> hs, handler |-> 0, err |-> "IDNotFound"]
    ELSE [handlers |-> hs, handler |-> hs[tag][id], err |-> "nil"]

\* getHandler that leaves the emptied inner map of the tag in wh.handlers
GetHandler_KeepTag(hs, tag, id) ==
    IF tag \notin DOMAIN hs
    THEN [handlers |-> hs, handler |-> 0, err |-> "HandlerNotFound"]
    ELSE IF id \notin DOMAIN hs[tag]
    THEN [handlers |-> hs, handler |-> 0, err |-> "IDNotFound"]
    ELSE [handlers |-> IF tag \in deleteAfterReceiving
                       THEN Put(hs, tag, Delete(hs[tag], id))
                       ELSE hs,
          handler |-> hs[tag][id],
          err |-> "nil"]

\* getHandler that deletes the handler whatever its tag
GetHandler_DeleteAlways(hs, tag, id) ==
    IF tag \notin DOMAIN hs
    THEN [handlers |-> hs, handler |-> 0, err |-> "HandlerNotFound"]
    ELSE IF id \notin DOMAIN hs[tag]
    THEN [handlers |-> hs, handler |-> 0, err |-> "IDNotFound"]
    ELSE LET rest == Delete(hs[tag], id)
         IN  [handlers |-> IF DOMAIN rest = {} THEN Delete(hs, tag)
                           ELSE Put(hs, tag, rest),
              handler |-> hs[tag][id],
              err |-> "nil"]

\* getHandler that forgets the tag when it finds no handler for the ID
GetHandler_DropTagOnMiss(hs, tag, id) ==
    IF tag \notin DOMAIN hs
    THEN [handlers |-> hs, handler |-> 0, err |-> "HandlerNotFound"]
    ELSE IF id \notin DOMAIN hs[tag]
    THEN [handlers |-> Delete(hs, tag), handler |-> 0, err |-> "IDNotFound"]
    ELSE LET rest == Delete(hs[tag], id)
         IN  [handlers |->
                  IF tag \in deleteAfterReceiving
                  THEN IF DOMAIN rest = {} THEN Delete(hs, tag)
                       ELSE Put(hs, tag, rest)
                  ELSE hs,
              handler |-> hs[tag][id],
              err |-> "nil"]

\* getHandler(tag, id)
GetHandler(hs, tag, id) ==
    IF tag \notin DOMAIN hs
    THEN [handlers |-> hs, handler |-> 0, err |-> "HandlerNotFound"]
    ELSE IF id \notin DOMAIN hs[tag]
    THEN [handlers |-> hs, handler |-> 0, err |-> "IDNotFound"]
    ELSE LET rest == Delete(hs[tag], id)
         IN  [handlers |->
                  IF tag \in deleteAfterReceiving
                  THEN IF DOMAIN rest = {} THEN Delete(hs, tag)
                       ELSE Put(hs, tag, rest)
                  ELSE hs,
              handler |-> hs[tag][id],
              err |-> "nil"]

\* ----------------------------------------------------------------- Init
\* no envelope is in the codec
CodecIdle ==
    [stage |-> "idle", msg |-> ZeroMessage, wire |-> JNull,
     out |-> [msg |-> ZeroMessage, err |-> "nil"]]

\* Terminate was not called
NotTerminated ==
    [called |-> FALSE, log |-> 0, started |-> 0, sent |-> 0, posted |-> 0]

\* the goroutines of the connection
App == [kind |-> "application", n |-> 0]
Lis == [kind |-> "listener", n |-> 0]
\* a second call of the listener, begun while the first waits for wh.mux
Lis2 == [kind |-> "listener", n |-> 1]
Listeners == {Lis, Lis2}
Handler(i) == [kind |-> "handler", n |-> i]
Goroutines == {App} \cup Listeners \cup {Handler(i) : i \in 1..(MaxOps + 1)}

\* the zero value of sync.Mutex: unlocked
NoOne == [kind |-> "none", n |-> 0]

\* a goroutine that is in no call on the registry
NoCall ==
    [pc |-> "idle", op |-> "none", tag |-> <<>>, id |-> 0, auto |-> FALSE,
     handler |-> 0, wire |-> JNull, data |-> Nil]

\* no event of the channels system
NoEvent ==
    [op |-> "none", id |-> <<>>, parent |-> Nil, text |-> <<>>, status |-> 0]

\* the message store is empty and no event was delivered: the records by
\* key, the last event and whether it repeated the one before, the last
\* event of each message ID, the error of the last receiveHelper
EmptyStore ==
    [messages |-> EmptyMap, last |-> NoEvent, twice |-> FALSE,
     lastOf |-> EmptyMap, err |-> "nil"]

OthersIdle ==
    /\ mux = NoOne
    /\ calls = [t \in Goroutines |-> NoCall]
    /\ db = EmptyStore

AuxIdle ==
    /\ codec = CodecIdle
    /\ termAt = NotTerminated
    /\ OthersIdle

Init ==
    /\ pc = "start"
    /\ elapsed = 0
    /\ handlers = EmptyMap
    /\ handlerIDs = EmptyMap
    /\ regLog = <<>>
    /\ readySent = FALSE
    /\ log = <<>>
    /\ started = <<>>
    /\ readyDone = {}
    /\ sent = <<>>
    /\ pending = {}
    /\ posted = <<>>
    /\ AuxIdle

\* ------------------------------------------------------ NewWorkerHandler
\* js.Global().Get("Worker").New(aURL, opts) and the struct literal
NewWorker ==
    /\ pc = "start"
    /\ pc' = "created"
    /\ UNCHANGED <<aux, elapsed, registry, readySent, log, goroutines, outbound>>

\* wh.addEventListeners()
AddEventListeners ==
    /\ pc = "created"
    /\ pc' = "wired"
    /\ UNCHANGED <<aux, elapsed, registry, readySent, log, goroutines, outbound>>

\* wh.RegisterHandler(ReadyTag, InitID, false, func([]byte){ ready <- ... })
RegisterReady ==
    /\ pc = "wired"
    /\ LET r == RegisterHandler(handlers, handlerIDs, ReadyTag, InitID,
                                FALSE, Len(regLog) + 1)
       IN  /\ handlers' = r.handlers
           /\ handlerIDs' = r.handlerIDs
           /\ regLog' = Append(regLog,
                  [tag |-> ReadyTag, id |-> r.id, auto |-> FALSE])
    /\ pc' = "waiting"
    /\ UNCHANGED <<aux, elapsed, readySent, log, goroutines, outbound>>

\* every handler, whatever its tag and ID, signals ready
ReadySenders_AnyFrame == {i \in 1..Len(log) : i \notin readyDone}

\* handler goroutines blocked in `ready <- struct{}{}`
ReadySenders ==
    {i \in 1..Len(log) :
        /\ \E k \in 1..Len(started) : started[k] = i
        /\ log[i].err = "nil"
        /\ log[i].handler = ReadyFn
        /\ i \notin readyDone}

\* the constructor waits for ResponseTimeout only
TimerFired_Response == elapsed >= ResponseTimeout

\* time.After(workerInitialConnectionTimeout) has fired
TimerFired == elapsed >= workerInitialConnectionTimeout

\* time passes while the constructor waits in its select
Tick ==
    /\ pc = "waiting"
    /\ ~TimerFired
    /\ elapsed' = elapsed + 1
    /\ UNCHANGED <<aux, pc, registry, readySent, log, goroutines, outbound>>

\* case <-ready: return wh, nil
SelectReady ==
    /\ pc = "waiting"
    /\ \E i \in ReadySenders : readyDone' = readyDone \cup {i}
    /\ pc' = "ready"
    /\ UNCHANGED <<aux, elapsed, registry, readySent, log, started, outbound>>

\* case <-time.After(...): return nil, error
SelectTimeout ==
    /\ pc = "waiting"
    /\ TimerFired
    /\ pc' = "failed"
    /\ UNCHANGED <<aux, elapsed, registry, readySent, log, goroutines, outbound>>

\* -------------------------------------------------------------- listener
\* goroutines spawned by `go handler(msg.Data)`, by index into log
Spawned == {i \in 1..Len(log) : log[i].err = "nil"}

\* handler goroutines that began to run.  The ready closure returns when its
\* send is received; any other handler is taken never to return
Running == {started[k] : k \in 1..Len(started)}

\* the listener calls handler(msg.Data) itself and waits for its return
ListenerWaitsFor_Inline == Spawned \ readyDone

\* the handlers whose return the listener waits for before it takes the
\* next frame: none, `go handler(msg.Data)` does not wait
ListenerWaitsFor == {}

\* the message listener is attached to the worker and free, and the worker
\* was not terminated: a terminated worker delivers no message event
Listening ==
    /\ pc \notin {"start", "created", "terminated"}
    /\ ListenerWaitsFor = {}

\* frames received after the worker's ready signal
Emitted == Len(log) - (IF readySent THEN 1 ELSE 0)

\* operations on the connection so far: registrations by the application
\* (those of SendMessage included), sends without a handler, frames received
Ops ==
    (Len(regLog) - 1)
    + Cardinality({k \in 1..Len(sent) : sent[k].handler = 0})
    + Emitted

\* receiveMessage(data): Unmarshal, getHandler, go handler(msg.Data)
ReceiveMessage(data) ==
    \E u \in {Unmarshal(data)} :
    \E r \in {GetHandler(handlers, u.msg.tag, u.msg.id)} :
      LET e == [wire |-> data,
                tag |-> u.msg.tag, id |-> u.msg.id, data |-> u.msg.data,
                regs |-> Len(regLog),
                inTime |-> ~TimerFired /\ pc # "failed"]
      IN  IF u.err # "nil"
          THEN /\ handlers' = handlers
               /\ log' = Append(log, e @@ [err |-> u.err, handler |-> 0])
          ELSE /\ handlers' = r.handlers
               /\ log' = Append(log, e @@ [err |-> r.err,
                                           handler |-> r.handler])

\* the listener is called with the worker's ready signal, sent once
ReceiveReady ==
    /\ Listening
    /\ ~readySent
    /\ readySent' = TRUE
    /\ ReceiveMessage(Marshal(WorkerMessage(ReadyTag, InitID,
                                           Payload(ReadyTag, 1))))
    /\ UNCHANGED <<aux, pc, elapsed, handlerIDs, regLog, goroutines, outbound>>

\* during the handshake the listener is called with a frame that is not
\* the worker's one ready signal: a stray, or a repeated ready
ReceiveStray ==
    /\ Listening
    /\ Emitted < MaxStrays
    /\ \E tag \in Tags, id \in IDs :
          /\ (tag = ReadyTag /\ id = InitID) => readySent
          /\ ReceiveMessage(Marshal(WorkerMessage(tag, id,
                                                 Payload(tag, 1))))
    /\ UNCHANGED <<aux, pc, elapsed, handlerIDs, regLog, readySent, goroutines,
                   outbound>>

\* the listener is called with a frame the worker emitted on its own: the
\* next event of a stream, or an unsolicited reply
ReceiveFrame(tag, id) ==
    /\ Listening
    /\ Ops < MaxOps
    /\ ReceiveMessage(Marshal(WorkerMessage(tag, id,
                                           Payload(tag, Emitted + 1))))
    /\ UNCHANGED <<aux, pc, elapsed, handlerIDs, regLog, readySent, goroutines,
                   outbound>>

ReceiveEvent == \E tag \in UserTags, id \in IDs : ReceiveFrame(tag, id)

\* the listener is called with the worker's reply to a posted envelope,
\* which echoes its tag and ID; the worker may reply more than once
ReceiveReply ==
    /\ Listening
    /\ Ops < MaxOps
    /\ \E k \in 1..Len(posted) :
          ReceiveMessage(Marshal(WorkerMessage(sent[posted[k]].tag,
                                               sent[posted[k]].id,
                                               sent[posted[k]].data)))
    /\ UNCHANGED <<aux, pc, elapsed, handlerIDs, regLog, readySent, goroutines,
                   outbound>>

\* a spawned handler goroutine is scheduled and begins to run
StartGoroutine(i) ==
    /\ i \in Spawned \ Running
    /\ started' = Append(started, i)
    /\ UNCHANGED <<aux, pc, elapsed, registry, readySent, log, readyDone,
                   outbound>>

StartHandler == \E i \in 1..Len(log) : StartGoroutine(i)

\* ----------------------------------------------------------- application
\* the application holds wh from the constructor's first statement
HasHandle_FromStart == TRUE

\* the constructor returned wh, so the application can call its methods
HasHandle == pc \in {"ready", "terminated"}

\* wh.RegisterHandler(tag, id, autoID, handler)
AppRegister ==
    /\ HasHandle
    /\ Ops < MaxOps
    /\ \E tag \in UserTags, id \in IDs, autoID \in BOOLEAN :
         LET r == RegisterHandler(handlers, handlerIDs, tag, id, autoID,
                                  Len(regLog) + 1)
         IN  /\ handlers' = r.handlers
             /\ handlerIDs' = r.handlerIDs
             /\ regLog' = Append(regLog,
                    [tag |-> tag, id |-> r.id, auto |-> autoID])
    /\ UNCHANGED <<aux, pc, elapsed, readySent, log, goroutines, outbound>>

\* SendMessage that drops the ID RegisterHandler returned: `var id uint64`
\* stays zero
SendMessage_ZeroID ==
    /\ HasHandle
    /\ Ops < MaxOps
    /\ \E tag \in UserTags, withHandler \in BOOLEAN :
           LET data == Payload(tag, 1)
               r == RegisterHandler(handlers, handlerIDs, tag, 0, TRUE,
                                    Len(regLog) + 1)
           IN  IF withHandler
               THEN /\ handlers' = r.handlers
                    /\ handlerIDs' = r.handlerIDs
                    /\ regLog' = Append(regLog,
                           [tag |-> tag, id |-> r.id, auto |-> TRUE])
                    /\ sent' = Append(sent,
                           [tag |-> tag, id |-> 0, data |-> data,
                            handler |-> Len(regLog) + 1])
               ELSE /\ UNCHANGED registry
                    /\ sent' = Append(sent,
                           [tag |-> tag, id |-> 0, data |-> data,
                            handler |-> 0])
    /\ pending' = pending \cup {Len(sent) + 1}
    /\ UNCHANGED <<aux, pc, elapsed, readySent, log, goroutines, posted>>

\* wh.SendMessage(tag, data, receptionHandler); handler 0 stands for nil
SendMessage ==
    /\ HasHandle
    /\ Ops < MaxOps
    /\ \E tag \in UserTags, withHandler \in BOOLEAN :
           LET data == Payload(tag, 1)
               r == RegisterHandler(handlers, handlerIDs, tag, 0, TRUE,
                                    Len(regLog) + 1)
           IN  IF withHandler
               THEN /\ handlers' = r.handlers
                    /\ handlerIDs' = r.handlerIDs
                    /\ regLog' = Append(regLog,
                           [tag |-> tag, id |-> r.id, auto |-> TRUE])
                    /\ sent' = Append(sent,
                           [tag |-> tag, id |-> r.id, data |-> data,
                            handler |-> Len(regLog) + 1])
               ELSE /\ UNCHANGED registry
                    /\ sent' = Append(sent,
                           [tag |-> tag, id |-> 0, data |-> data,
                            handler |-> 0])
    /\ pending' = pending \cup {Len(sent) + 1}
    /\ UNCHANGED <<aux, pc, elapsed, readySent, log, goroutines, posted>>

\* a postMessage goroutine that can run again
PostMessage_Again ==
    /\ \E i \in pending :
         /\ pending' = pending
         /\ posted' = Append(posted, i)
    /\ UNCHANGED <<aux, pc, elapsed, registry, readySent, log, goroutines, sent>>

\* a goroutine spawned by `go wh.postMessage(...)` runs
PostMessage ==
    /\ \E i \in pending :
         /\ pending' = pending \ {i}
         /\ posted' = Append(posted, i)
    /\ UNCHANGED <<aux, pc, elapsed, registry, readySent, log, goroutines, sent>>

\* Terminate that does not call terminate on the worker
Terminate_NoCall ==
    /\ pc = "ready"
    /\ ~termAt.called
    /\ termAt' = [called |-> TRUE, log |-> Len(log),
                  started |-> Len(started), sent |-> Len(sent),
                  posted |-> Len(posted)]
    /\ UNCHANGED <<pc, codec, others, elapsed, registry, readySent, log,
                   goroutines, outbound>>

\* Terminate that also empties the registry
Terminate_Unregister ==
    /\ pc = "ready"
    /\ pc' = "terminated"
    /\ termAt' = [called |-> TRUE, log |-> Len(log),
                  started |-> Len(started), sent |-> Len(sent),
                  posted |-> Len(posted)]
    /\ handlers' = EmptyMap
    /\ UNCHANGED <<codec, others, elapsed, handlerIDs, regLog, readySent, log,
                   goroutines, outbound>>

\* wh.Terminate(): wh.worker.Call("terminate")
Terminate ==
    /\ pc = "ready"
    /\ pc' = "terminated"
    /\ termAt' = [called |-> TRUE, log |-> Len(log),
                  started |-> Len(started), sent |-> Len(sent),
                  posted |-> Len(posted)]
    /\ UNCHANGED <<codec, others, elapsed, registry, readySent, log,
                   goroutines, outbound>>

\* the constructor, from its first statement, and what follows its failure
Next ==
    \/ NewWorker
    \/ AddEventListeners
    \/ RegisterReady
    \/ Tick
    \/ SelectReady
    \/ SelectTimeout
    \/ ReceiveReady
    \/ ReceiveStray
    \/ StartHandler

Spec == Init /\ [][Next]_vars

\* the constructor with a scheduler that runs what can run and a clock that
\* goes on; the worker need not send anything
SpecFair ==
    /\ Spec
    /\ WF_vars(NewWorker \/ AddEventListeners \/ RegisterReady)
    /\ WF_vars(Tick)
    /\ WF_vars(SelectReady)
    /\ WF_vars(SelectTimeout)
    /\ WF_vars(StartHandler)

\* the state in which NewWorkerHandler returns wh: the ready signal was
\* received, its handler deleted from the map, and its goroutine's send taken
InitReady ==
    /\ pc = "ready"
    /\ elapsed = 0
    /\ handlers = EmptyMap
    /\ handlerIDs = EmptyMap
    /\ regLog = <<[tag |-> ReadyTag, id |-> InitID, auto |-> FALSE]>>
    /\ readySent = TRUE
    /\ log = <<[wire |-> Marshal(WorkerMessage(ReadyTag, InitID,
                                               Payload(ReadyTag, 1))),
                tag |-> ReadyTag, id |-> InitID,
                data |-> Payload(ReadyTag, 1),
                err |-> "nil", handler |-> ReadyFn, regs |-> 1,
                inTime |-> TRUE]>>
    /\ started = <<1>>
    /\ readyDone = {1}
    /\ sent = <<>>
    /\ pending = {}
    /\ posted = <<>>
    /\ AuxIdle

\* the connection in use by the application
NextReady ==
    \/ AppRegister
    \/ SendMessage
    \/ PostMessage
    \/ ReceiveReply
    \/ ReceiveEvent
    \/ StartHandler

SpecReady == InitReady /\ [][NextReady]_vars

\* the connection in use for requests and their replies until the
\* application terminates it, and after
NextTerm ==
    \/ SendMessage
    \/ PostMessage
    \/ ReceiveReply
    \/ StartHandler
    \/ Terminate

SpecTerm == InitReady /\ [][NextTerm]_vars

\* the connection in use by the application, with all its operations,
\* until the application terminates it, and after
NextUse ==
    \/ AppRegister
    \/ SendMessage
    \/ PostMessage
    \/ ReceiveReply
    \/ ReceiveEvent
    \/ StartHandler
    \/ Terminate

SpecUse == InitReady /\ [][NextUse]_vars

\* the connection from its construction to its termination, with the sends
\* of the application
NextLife ==
    \/ NewWorker
    \/ AddEventListeners
    \/ RegisterReady
    \/ Tick
    \/ SelectReady
    \/ SelectTimeout
    \/ ReceiveReady
    \/ StartHandler
    \/ SendMessage
    \/ PostMessage
    \/ Terminate

SpecLife == Init /\ [][NextLife]_vars

\* -------------------------------------------------------- registry mutex
\* the operations of the connection, one step per statement that takes,
\* releases or needs wh.mux

\* calls on the registry begun and not finished
Active == Cardinality({t \in Goroutines : calls[t].pc \notin {"idle", "done"}})

\* a goroutine whose call has returned: the application can call again, a
\* handler has run to its end
Returned(t) ==
    IF t = App THEN NoCall
    ELSE [NoCall EXCEPT !.pc = "done", !.op = calls[t].op]

\* goroutine t may begin a call: the application at any time, a handler
\* from within its callback, once
MayCall(t) ==
    /\ calls[t].pc = "idle"
    /\ \/ t = App
       \/ t.kind = "handler" /\ t.n \in Running \ readyDone
    /\ Ops + Active < MaxOps

\* t calls wh.SendMessage(tag, data, receptionHandler)
BeginSend(t) ==
    /\ MayCall(t)
    /\ \E tag \in UserTags, withHandler \in BOOLEAN :
          calls' = [calls EXCEPT ![t] =
              [NoCall EXCEPT !.pc = IF withHandler THEN "lock" ELSE "post",
                             !.op = "SendMessage", !.tag = tag,
                             !.auto = TRUE, !.data = Payload(tag, 1)]]
    /\ UNCHANGED <<codec, termAt, mux, db, pc, elapsed, registry, readySent,
                   log, goroutines, outbound>>

\* t calls wh.RegisterHandler(tag, id, autoID, handler)
BeginRegister(t) ==
    /\ MayCall(t)
    /\ \E tag \in UserTags, id \in IDs, autoID \in BOOLEAN :
          calls' = [calls EXCEPT ![t] =
              [NoCall EXCEPT !.pc = "lock", !.op = "RegisterHandler",
                             !.tag = tag, !.id = id, !.auto = autoID]]
    /\ UNCHANGED <<codec, termAt, mux, db, pc, elapsed, registry, readySent,
                   log, goroutines, outbound>>

\* wh.mux.Lock() in RegisterHandler and getHandler
Lock(t) ==
    /\ calls[t].pc = "lock"
    /\ mux = NoOne
    /\ mux' = t
    /\ calls' = [calls EXCEPT ![t].pc = "locked"]
    /\ UNCHANGED <<codec, termAt, db, pc, elapsed, registry, readySent, log,
                   goroutines, outbound>>

\* the body of RegisterHandler and its deferred wh.mux.Unlock()
RegisterUnlock(t) ==
    /\ calls[t].pc = "locked"
    /\ calls[t].op \in {"SendMessage", "RegisterHandler"}
    /\ mux = t
    /\ LET r == RegisterHandler(handlers, handlerIDs, calls[t].tag,
                                calls[t].id, calls[t].auto, Len(regLog) + 1)
       IN  /\ handlers' = r.handlers
           /\ handlerIDs' = r.handlerIDs
           /\ regLog' = Append(regLog, [tag |-> calls[t].tag, id |-> r.id,
                                        auto |-> calls[t].auto])
           /\ calls' = [calls EXCEPT ![t] =
                 IF calls[t].op = "SendMessage"
                 THEN [calls[t] EXCEPT !.pc = "post", !.id = r.id,
                                       !.handler = Len(regLog) + 1]
                 ELSE Returned(t)]
    /\ mux' = NoOne
    /\ UNCHANGED <<codec, termAt, db, pc, elapsed, readySent, log, goroutines,
                   outbound>>

\* SendMessage returns when the worker has replied to its envelope
SendReturn_AwaitReply(t) ==
    /\ calls[t].pc = "post"
    /\ \E i \in 1..Len(log) :
          log[i].tag = calls[t].tag /\ log[i].id = calls[t].id
    /\ sent' = Append(sent, [tag |-> calls[t].tag, id |-> calls[t].id,
                             data |-> calls[t].data,
                             handler |-> calls[t].handler])
    /\ pending' = pending \cup {Len(sent) + 1}
    /\ calls' = [calls EXCEPT ![t] = Returned(t)]
    /\ UNCHANGED <<codec, termAt, mux, db, pc, elapsed, registry, readySent,
                   log, goroutines, posted>>

\* the rest of SendMessage: json.Marshal(msg), go wh.postMessage(...), return
SendReturn(t) ==
    /\ calls[t].pc = "post"
    /\ sent' = Append(sent, [tag |-> calls[t].tag, id |-> calls[t].id,
                             data |-> calls[t].data,
                             handler |-> calls[t].handler])
    /\ pending' = pending \cup {Len(sent) + 1}
    /\ calls' = [calls EXCEPT ![t] = Returned(t)]
    /\ UNCHANGED <<codec, termAt, mux, db, pc, elapsed, registry, readySent,
                   log, goroutines, posted>>

\* what receiveMessage records of a frame
Received(c, err, handler) ==
    [wire |-> c.wire, tag |-> c.tag, id |-> c.id, data |-> c.data,
     regs |-> Len(regLog), inTime |-> TRUE, err |-> err, handler |-> handler]

\* the listener is called with the worker's reply to a posted envelope:
\* receiveMessage up to its call of getHandler
BeginReceive ==
    /\ Listening
    /\ calls[Lis].pc = "idle"
    /\ Ops + Active < MaxOps
    /\ \E k \in 1..Len(posted) :
       \E data \in {Marshal(WorkerMessage(sent[posted[k]].tag,
                                          sent[posted[k]].id,
                                          sent[posted[k]].data))} :
       \E u \in {Unmarshal(data)} :
          LET c == [NoCall EXCEPT !.pc = "lock", !.op = "getHandler",
                                  !.tag = u.msg.tag, !.id = u.msg.id,
                                  !.wire = data, !.data = u.msg.data]
          IN  IF u.err # "nil"
              THEN /\ log' = Append(log, Received(c, u.err, 0))
                   /\ UNCHANGED calls
              ELSE /\ calls' = [calls EXCEPT ![Lis] = c]
                   /\ UNCHANGED log
    /\ UNCHANGED <<codec, termAt, mux, db, pc, elapsed, registry, readySent,
                   goroutines, outbound>>

\* getHandler keeps wh.mux until the handler it returned has run to its end
GetUnlock_HeldForCallback ==
    /\ calls[Lis].pc \in {"locked", "held"}
    /\ calls[Lis].op = "getHandler"
    /\ mux = Lis
    /\ IF calls[Lis].pc = "locked"
       THEN \E r \in {GetHandler(handlers, calls[Lis].tag, calls[Lis].id)} :
              /\ handlers' = r.handlers
              /\ IF r.err # "nil"
                 THEN /\ log' = Append(log, Received(calls[Lis], r.err, 0))
                      /\ calls' = [calls EXCEPT ![Lis] = NoCall]
                      /\ mux' = NoOne
                 ELSE /\ log' = Append(log,
                             Received(calls[Lis], "nil", r.handler))
                      /\ calls' = [calls EXCEPT ![Lis].pc = "held",
                                                ![Lis].handler = Len(log) + 1]
                      /\ mux' = mux
       ELSE /\ calls[Handler(calls[Lis].handler)].pc = "done"
            /\ calls' = [calls EXCEPT ![Lis] = NoCall]
            /\ mux' = NoOne
            /\ UNCHANGED <<handlers, log>>
    /\ UNCHANGED <<codec, termAt, db, pc, elapsed, handlerIDs, regLog,
                   readySent, goroutines, outbound>>

\* the body of getHandler and its deferred wh.mux.Unlock()
GetUnlock ==
    /\ calls[Lis].pc = "locked"
    /\ calls[Lis].op = "getHandler"
    /\ mux = Lis
    /\ \E r \in {GetHandler(handlers, calls[Lis].tag, calls[Lis].id)} :
          /\ handlers' = r.handlers
          /\ IF r.err # "nil"
             THEN /\ log' = Append(log, Received(calls[Lis], r.err, 0))
                  /\ calls' = [calls EXCEPT ![Lis] = NoCall]
             ELSE /\ calls' = [calls EXCEPT ![Lis].pc = "spawn",
                                            ![Lis].handler = r.handler]
                  /\ UNCHANGED log
    /\ mux' = NoOne
    /\ UNCHANGED <<codec, termAt, db, pc, elapsed, handlerIDs, regLog,
                   readySent, goroutines, outbound>>

\* go handler(msg.Data); return nil
Spawn ==
    /\ calls[Lis].pc = "spawn"
    /\ log' = Append(log, Received(calls[Lis], "nil", calls[Lis].handler))
    /\ calls' = [calls EXCEPT ![Lis] = NoCall]
    /\ UNCHANGED <<codec, termAt, mux, db, pc, elapsed, registry, readySent,
                   goroutines, outbound>>

\* a handler returns without a call on the connection
HandlerReturn ==
    \E i \in Running \ readyDone :
        /\ calls[Handler(i)].pc = "idle"
        /\ calls' = [calls EXCEPT ![Handler(i)].pc = "done"]
        /\ UNCHANGED <<codec, termAt, mux, db, pc, elapsed, registry,
                       readySent, log, goroutines, outbound>>

AppSend == BeginSend(App)
HandlerSend == \E i \in 1..(MaxOps + 1) : BeginSend(Handler(i))
HandlerRegisters == \E i \in 1..(MaxOps + 1) : BeginRegister(Handler(i))
Locks == \E t \in Goroutines : Lock(t)
RegisterUnlocks == \E t \in Goroutines : RegisterUnlock(t)
SendReturns == \E t \in Goroutines : SendReturn(t)

\* the steps in which goroutine t goes on with the call it is in
CallStep(t) ==
    \/ Lock(t)
    \/ RegisterUnlock(t)
    \/ SendReturn(t)
    \/ t = Lis /\ (GetUnlock \/ Spawn)

NextMux ==
    \/ AppSend
    \/ HandlerSend
    \/ HandlerRegisters
    \/ HandlerReturn
    \/ Locks
    \/ RegisterUnlocks
    \/ SendReturns
    \/ BeginReceive
    \/ GetUnlock
    \/ Spawn
    \/ StartHandler
    \/ PostMessage

SpecMux == InitReady /\ [][NextMux]_vars

\* a goroutine that is in a call on the registry is scheduled again; no
\* such thing is assumed of the worker, of postMessage goroutines, of
\* handlers that have not begun a call
SpecMuxFair == SpecMux /\ \A t \in Goroutines : WF_vars(CallStep(t))

\* ------------------------------------------------ concurrent deliveries
\* getHandler one statement at a time, in two calls of the listener that
\* can overlap

\* the listener is called with the worker's reply to a posted envelope:
\* receiveMessage up to its call of getHandler
ReceiveBegin(l) ==
    /\ Listening
    /\ calls[l].pc = "idle"
    /\ Ops + Active < MaxOps
    /\ \E k \in 1..Len(posted) :
       \E data \in {Marshal(WorkerMessage(sent[posted[k]].tag,
                                          sent[posted[k]].id,
                                          sent[posted[k]].data))} :
       \E u \in {Unmarshal(data)} :
          LET c == [NoCall EXCEPT !.pc = "lock", !.op = "getHandler",
                                  !.tag = u.msg.tag, !.id = u.msg.id,
                                  !.wire = data, !.data = u.msg.data]
          IN  IF u.err # "nil"
              THEN /\ log' = Append(log, Received(c, u.err, 0))
                   /\ UNCHANGED calls
              ELSE /\ calls' = [calls EXCEPT ![l] = c]
                   /\ UNCHANGED log
    /\ UNCHANGED <<codec, termAt, mux, db, pc, elapsed, registry, readySent,
                   goroutines, outbound>>

\* getHandler that unlocks wh.mux once it has read the handler, and deletes
\* it afterwards
Lookup_Unlocks(l) ==
    /\ calls[l].pc = "locked"
    /\ calls[l].op = "getHandler"
    /\ \E r \in {GetHandler(handlers, calls[l].tag, calls[l].id)} :
          IF r.err # "nil"
          THEN /\ log' = Append(log, Received(calls[l], r.err, 0))
               /\ calls' = [calls EXCEPT ![l] = NoCall]
          ELSE /\ calls' = [calls EXCEPT ![l].pc = "found",
                                         ![l].handler = r.handler]
               /\ UNCHANGED log
    /\ mux' = NoOne
    /\ UNCHANGED <<codec, termAt, db, pc, elapsed, registry, readySent,
                   goroutines, outbound>>

\* getHandler, the two map reads: handlers, exists := wh.handlers[tag] and
\* handler, exists := handlers[id]; an error return unlocks
Lookup(l) ==
    /\ calls[l].pc = "locked"
    /\ calls[l].op = "getHandler"
    /\ \E r \in {GetHandler(handlers, calls[l].tag, calls[l].id)} :
          IF r.err # "nil"
          THEN /\ log' = Append(log, Received(calls[l], r.err, 0))
               /\ calls' = [calls EXCEPT ![l] = NoCall]
               /\ mux' = NoOne
          ELSE /\ calls' = [calls EXCEPT ![l].pc = "found",
                                         ![l].handler = r.handler]
               /\ UNCHANGED <<log, mux>>
    /\ UNCHANGED <<codec, termAt, db, pc, elapsed, registry, readySent,
                   goroutines, outbound>>

\* the deleteAfterReceiving block of getHandler
RemoveOneShot(hs, tag, id) ==
    IF tag \notin deleteAfterReceiving THEN hs
    ELSE LET rest == IF tag \in DOMAIN hs THEN Delete(hs[tag], id)
                     ELSE EmptyMap
         IN  IF DOMAIN rest = {} THEN Delete(hs, tag)
             ELSE Put(hs, tag, rest)

\* getHandler, from the deleteAfterReceiving block to its return and the
\* deferred wh.mux.Unlock()
DeleteUnlock(l) ==
    /\ calls[l].pc = "found"
    /\ handlers' = RemoveOneShot(handlers, calls[l].tag, calls[l].id)
    /\ mux' = NoOne
    /\ calls' = [calls EXCEPT ![l].pc = "spawn"]
    /\ UNCHANGED <<codec, termAt, db, pc, elapsed, handlerIDs, regLog,
                   readySent, log, goroutines, outbound>>

\* go handler(msg.Data); return nil
Dispatch(l) ==
    /\ calls[l].pc = "spawn"
    /\ log' = Append(log, Received(calls[l], "nil", calls[l].handler))
    /\ calls' = [calls EXCEPT ![l] = NoCall]
    /\ UNCHANGED <<codec, termAt, mux, db, pc, elapsed, registry, readySent,
                   goroutines, outbound>>

Receives == \E l \in Listeners : ReceiveBegin(l)
Lookups == \E l \in Listeners : Lookup(l)
DeleteUnlocks == \E l \in Listeners : DeleteUnlock(l)
Dispatches == \E l \in Listeners : Dispatch(l)

NextRace ==
    \/ AppSend
    \/ Locks
    \/ RegisterUnlocks
    \/ SendReturns
    \/ PostMessage
    \/ Receives
    \/ Lookups
    \/ DeleteUnlocks
    \/ Dispatches
    \/ StartHandler

SpecRace == InitReady /\ [][NextRace]_vars

\* -------------------------------------------------------- message store
\* the events the channels system delivers to the storage consumer
MessageIDs == {<<1>>, <<2>>}
ChannelID == <<7>>
Sender == <<117>>
Texts == {<<97>>, <<98>>}
Statuses == {0, 1}
\* "2022-11-03T10:00:00Z" and the zero time.Time, as json.Marshal writes them
Stamp ==
    <<50, 48, 50, 50, 45, 49, 49, 45, 48, 51, 84, 49, 48, 58, 48, 48, 58, 48,
      48, 90>>
ZeroTime ==
    <<48, 48, 48, 49, 45, 48, 49, 45, 48, 49, 84, 48, 48, 58, 48, 48, 58, 48,
      48, 90>>
Lease == 30

JBool(b) == [k |-> "bool", v |-> <<IF b THEN 1 ELSE 0>>]

\* buildMessage(channelID, messageID, parentId, senderUsername, text,
\* timestamp, lease, status)
buildMessage(channelID, messageID, parentId, senderUsername, text, timestamp, lease, status) ==
    [Id |-> messageID, SenderUsername |-> senderUsername,
     ChannelId |-> channelID, ParentMessageId |-> parentId,
     Timestamp |-> timestamp, Lease |-> lease, Status |-> status,
     Hidden |-> FALSE, Pinned |-> FALSE, Text |-> text]

\* &Message{Id: messageID.Bytes(), Status: uint8(status)}
StatusMessage(messageID, status) ==
    [Id |-> messageID, SenderUsername |-> <<>>, ChannelId |-> Nil,
     ParentMessageId |-> Nil, Timestamp |-> ZeroTime, Lease |-> 0,
     Status |-> status, Hidden |-> FALSE, Pinned |-> FALSE, Text |-> <<>>]

\* the Message an event is stored as
MessageOf(e) ==
    IF e.op = "UpdateSentStatus" THEN StatusMessage(e.id, e.status)
    ELSE buildMessage(ChannelID, e.id, e.parent, Sender, e.text, Stamp,
                      Lease, e.status)

\* a []byte as json.Marshal writes it: base64 text, null for nil
JBytes(b) == IF b = Nil THEN JNull ELSE JStr(EncodeToString(b))

\* json.Marshal(newMessage) and convertJsonToJs: the object put in the store
ToJs(m) ==
    [Id |-> JBytes(m.Id), SenderUsername |-> JStr(m.SenderUsername),
     ChannelId |-> JBytes(m.ChannelId),
     ParentMessageId |-> JBytes(m.ParentMessageId),
     Timestamp |-> JStr(m.Timestamp), Lease |-> JNum(m.Lease),
     Status |-> JNum(m.Status), Hidden |-> JBool(m.Hidden),
     Pinned |-> JBool(m.Pinned), Text |-> JStr(m.Text)]

\* the key path of the message store: the message ID
KeyOf(obj) == obj.Id.v

\* store.add(messageObj): refuses a key that is in the store
StorePut_Add(messages, obj) ==
    IF KeyOf(obj) \in DOMAIN messages
    THEN [messages |-> messages, err |-> "ConstraintError"]
    ELSE [messages |-> Put(messages, KeyOf(obj), obj), err |-> "nil"]

\* store.Put(messageObj): insert, or replace the record with the same key
StorePut(messages, obj) ==
    [messages |-> Put(messages, KeyOf(obj), obj), err |-> "nil"]

\* receiveHelper(newMessage): marshal, convert, put in a read-write
\* transaction, await it
receiveHelper(messages, newMessage) == StorePut(messages, ToJs(newMessage))

\* an event is delivered and stored; its error is only logged
Deliver(e) ==
    \E r \in {receiveHelper(db.messages, MessageOf(e))} :
        db' = [messages |-> r.messages,
               last |-> e,
               twice |-> (db.last = e),
               lastOf |-> Put(db.lastOf, e.id, e),
               err |-> r.err]

\* w.ReceiveMessage(channelID, messageID, senderUsername, text, ...)
ModelReceiveMessage ==
    /\ \E id \in MessageIDs, text \in Texts, status \in Statuses :
          Deliver([op |-> "ReceiveMessage", id |-> id, parent |-> Nil,
                   text |-> text, status |-> status])
    /\ UNCHANGED <<codec, termAt, mux, calls, pc, elapsed, registry,
                   readySent, log, goroutines, outbound>>

\* w.ReceiveReply(channelID, messageID, replyTo, senderUsername, text, ...)
ModelReceiveReply ==
    /\ \E id \in MessageIDs, replyTo \in MessageIDs, text \in Texts,
          status \in Statuses :
          Deliver([op |-> "ReceiveReply", id |-> id, parent |-> replyTo,
                   text |-> text, status |-> status])
    /\ UNCHANGED <<codec, termAt, mux, calls, pc, elapsed, registry,
                   readySent, log, goroutines, outbound>>

\* w.ReceiveReaction(channelID, messageID, reactionTo, senderUsername,
\* reaction, ...)
ModelReceiveReaction ==
    /\ \E id \in MessageIDs, reactionTo \in MessageIDs,
          reaction \in Texts, status \in Statuses :
          Deliver([op |-> "ReceiveReaction", id |-> id,
                   parent |-> reactionTo, text |-> reaction,
                   status |-> status])
    /\ UNCHANGED <<codec, termAt, mux, calls, pc, elapsed, registry,
                   readySent, log, goroutines, outbound>>

\* w.UpdateSentStatus(messageID, status)
UpdateSentStatus ==
    /\ \E id \in MessageIDs, status \in Statuses :
          Deliver([op |-> "UpdateSentStatus", id |-> id, parent |-> Nil,
                   text |-> <<>>, status |-> status])
    /\ UNCHANGED <<codec, termAt, mux, calls, pc, elapsed, registry,
                   readySent, log, goroutines, outbound>>

NextStore ==
    \/ ModelReceiveMessage
    \/ ModelReceiveReply
    \/ ModelReceiveReaction
    \/ UpdateSentStatus

\* the storage consumer on an open, empty database
SpecStore == Init /\ [][NextStore]_vars

\* ------------------------------------------------- frames of any shape
\* text that is not JSON
NotJSON == [k |-> "syntax", v |-> <<>>]
\* "aGk=", the base64 text of "hi"
HiText == EncodeToString(Hi)

\* frames that are not the encoding of an envelope: no JSON, JSON that is no
\* object, objects that lack members, members of the wrong kind, a payload
\* that is no base64, keys in another case
ForeignFrames ==
    <<NotJSON,
      JNull,
      JNum(7),
      JObject(<<>>),
      JObject(<<Member(TagKey, JStr(EventTag))>>),
      JObject(<<Member(TagKey, JStr(EventTag)), Member(DataKey, JStr(HiText))>>),
      JObject(<<Member(TagKey, JStr(EchoTag)), Member(IDKey, JNum(0))>>),
      JObject(<<Member(IDKey, JNum(0)), Member(DataKey, JStr(HiText))>>),
      JObject(<<Member(TagKey, JStr(EchoTag)), Member(IDKey, JStr(<<48>>)),
                Member(DataKey, JStr(HiText))>>),
      JObject(<<Member(TagKey, JStr(EventTag)), Member(IDKey, JNum(-1)),
                Member(DataKey, JStr(HiText))>>),
      JObject(<<Member(TagKey, JStr(EventTag)), Member(IDKey, JNum(0)),
                Member(DataKey, JStr(Hi))>>),
      JObject(<<Member(TagKey, JNum(1)), Member(IDKey, JNum(0)),
                Member(DataKey, JNull)>>),
      JObject(<<Member(<<84, 97, 103>>, JStr(EventTag)),
                Member(<<73, 68>>, JNum(0)),
                Member(<<68, 65, 84, 65>>, JStr(HiText))>>)>>

\* the listener is called with a frame of any shape
ReceiveForeign ==
    /\ Listening
    /\ Ops < MaxOps
    /\ \E n \in 1..Len(ForeignFrames) : ReceiveMessage(ForeignFrames[n])
    /\ UNCHANGED <<aux, pc, elapsed, handlerIDs, regLog, readySent,
                   goroutines, outbound>>

\* the connection after the application's first two calls:
\* RegisterHandler(EchoTag, 0, true, h2), RegisterHandler(EventTag, InitID,
\* false, h3)
InitWire ==
    /\ pc = "ready"
    /\ elapsed = 0
    /\ LET r2 == RegisterHandler(EmptyMap, EmptyMap, EchoTag, 0, TRUE, 2)
           r3 == RegisterHandler(r2.handlers, r2.handlerIDs, EventTag,
                                 InitID, FALSE, 3)
       IN  /\ handlers = r3.handlers
           /\ handlerIDs = r3.handlerIDs
           /\ regLog = <<[tag |-> ReadyTag, id |-> InitID, auto |-> FALSE],
                         [tag |-> EchoTag, id |-> r2.id, auto |-> TRUE],
                         [tag |-> EventTag, id |-> r3.id, auto |-> FALSE]>>
    /\ readySent = TRUE
    /\ log = <<[wire |-> Marshal(WorkerMessage(ReadyTag, InitID,
                                               Payload(ReadyTag, 1))),
                tag |-> ReadyTag, id |-> InitID,
                data |-> Payload(ReadyTag, 1),
                err |-> "nil", handler |-> ReadyFn, regs |-> 1,
                inTime |-> TRUE]>>
    /\ started = <<1>>
    /\ readyDone = {1}
    /\ sent = <<>>
    /\ pending = {}
    /\ posted = <<>>
    /\ AuxIdle

\* the connection in use, the channel carrying frames of any shape
NextWire ==
    \/ ReceiveEvent
    \/ ReceiveForeign
    \/ StartHandler

SpecWire == InitWire /\ [][NextWire]_vars

\* ------------------------------------------------------------- the codec
\* tags and payloads given to the codec: the tags in use, the empty tag, a
\* tag with a byte that is not UTF-8; the nil payload and payloads of every
\* length modulo three
CodecTags == Tags \cup {<<>>, <<InvalidByte, 101>>}
CodecPayloads ==
    {Nil, <<>>, <<255>>, Hi, <<0, 16, 131>>, <<251, 255, 254, 1>>,
     Payload(ReadyTag, 1)}

\* the connection is not in use; a message is about to be sent
InitCodec ==
    /\ pc = "start"
    /\ elapsed = 0
    /\ handlers = EmptyMap
    /\ handlerIDs = EmptyMap
    /\ regLog = <<>>
    /\ readySent = FALSE
    /\ log = <<>>
    /\ started = <<>>
    /\ readyDone = {}
    /\ sent = <<>>
    /\ pending = {}
    /\ posted = <<>>
    /\ termAt = NotTerminated
    /\ OthersIdle
    /\ \E tag \in CodecTags, id \in IDs, data \in CodecPayloads :
          codec = [CodecIdle EXCEPT !.stage = "message",
                                    !.msg = WorkerMessage(tag, id, data)]

\* payload, err := json.Marshal(msg)
Encode ==
    /\ codec.stage = "message"
    /\ codec' = [codec EXCEPT !.stage = "encoded",
                              !.wire = Marshal(codec.msg)]
    /\ UNCHANGED <<pc, elapsed, registry, readySent, log, goroutines,
                   outbound, termAt, others>>

\* err := json.Unmarshal(data, &msg) on the other side of the channel
Decode ==
    /\ codec.stage = "encoded"
    /\ codec' = [codec EXCEPT !.stage = "decoded",
                              !.out = Unmarshal(codec.wire)]
    /\ UNCHANGED <<pc, elapsed, registry, readySent, log, goroutines,
                   outbound, termAt, others>>

NextCodec ==
    \/ Encode
    \/ Decode

SpecCodec == InitCodec /\ [][NextCodec]_vars

\* =====================================================================
\* Properties
\* =====================================================================
LogIdx == 1..Len(log)
RegIdx == 1..Len(regLog)
OneShot(tag) == tag \in deleteAfterReceiving
NotFound == {"HandlerNotFound", "IDNotFound"}
Registered(tag, id) == tag \in DOMAIN handlers /\ id \in DOMAIN handlers[tag]
\* the registrations at (tag, id) among the first n
RegsAt(tag, id, n) ==
    {s \in 1..n : regLog[s].tag = tag /\ regLog[s].id = id}
Max(S) == CHOOSE m \in S : \A x \in S : x <= m
\* the auto-allocating registrations on the tag before registration j
AutoBefore(j) ==
    {i \in 1..(j - 1) : regLog[i].auto /\ regLog[i].tag = regLog[j].tag}

\* C1: per tag, the IDs returned by the auto-allocating registrations start
\* at InitID and strictly increase in the order of the calls, whatever was
\* delivered and removed in between; so no ID is returned twice for a tag.
C1_AutoIDsIncrease ==
    \A j \in RegIdx :
        regLog[j].auto =>
            IF AutoBefore(j) = {} THEN regLog[j].id = InitID
            ELSE \A i \in AutoBefore(j) : regLog[i].id < regLog[j].id

\* two replies were registered on the one-shot tag, and between the two
\* calls a delivery took the first, then the only handler of the tag
C1_Witness ==
    \E i, j \in RegIdx, a \in LogIdx :
        /\ i < j
        /\ regLog[i].auto /\ regLog[j].auto
        /\ regLog[i].tag = EchoTag /\ regLog[j].tag = EchoTag
        /\ {s \in 1..(j - 1) : regLog[s].tag = EchoTag} = {i}
        /\ log[a].err = "nil" /\ log[a].handler = i /\ log[a].regs < j
        /\ regLog[j].id = regLog[i].id + 1

\* C2: a handler on a delete-after-receiving tag is invoked at most once per
\* registration: no two deliveries got the same registration, and a frame
\* for a key that a delivery has taken, with no registration at that key in
\* between, gets a not-found error.
C2_OneShotOnce ==
    \A i, j \in LogIdx :
        (/\ i < j
         /\ OneShot(log[i].tag)
         /\ log[i].err = "nil"
         /\ log[j].tag = log[i].tag
         /\ log[j].id = log[i].id)
        => /\ log[j].err = "nil" => log[j].handler # log[i].handler
           /\ RegsAt(log[i].tag, log[i].id, log[j].regs)
                 = RegsAt(log[i].tag, log[i].id, log[i].regs)
              => log[j].err \in NotFound

\* a one-shot handler was invoked and a second frame for its key was dropped
C2_Witness ==
    \E i, j \in LogIdx :
        /\ i < j
        /\ OneShot(log[i].tag)
        /\ log[i].err = "nil" /\ log[i].handler # ReadyFn
        /\ log[j].tag = log[i].tag /\ log[j].id = log[i].id
        /\ log[j].regs = log[i].regs
        /\ log[j].err \in NotFound

\* C3: a handler on a tag that is not delete-after-receiving stays: every
\* frame for its key received after its registration is dispatched to the
\* latest registration at that key, and the map holds that registration.
C3_PersistentStays ==
    /\ \A j \in LogIdx :
          (/\ ~OneShot(log[j].tag)
           /\ RegsAt(log[j].tag, log[j].id, log[j].regs) # {})
          => /\ log[j].err = "nil"
             /\ log[j].handler
                  = Max(RegsAt(log[j].tag, log[j].id, log[j].regs))
    /\ \A s \in RegIdx :
          ~OneShot(regLog[s].tag)
          => /\ Registered(regLog[s].tag, regLog[s].id)
             /\ handlers[regLog[s].tag][regLog[s].id]
                  = Max(RegsAt(regLog[s].tag, regLog[s].id, Len(regLog)))

\* a persistent handler was invoked by two frames and is still registered
C3_Witness ==
    \E i, j \in LogIdx :
        /\ i < j
        /\ log[i].tag = EventTag /\ log[j].tag = EventTag
        /\ log[i].err = "nil" /\ log[j].err = "nil"
        /\ log[i].handler = log[j].handler
        /\ Registered(EventTag, log[i].id)
        /\ handlers[EventTag][log[i].id] = log[i].handler

\* C4: the reply handler of a SendMessage is in the map under the envelope's
\* tag and ID from the call on, so before postMessage runs: the key is
\* occupied unless a delivery after the registration took it, and a frame
\* for the key that arrives after the call is dropped as not-found only if
\* an earlier frame since the call took the handler.
C4_RegisteredBeforeSend ==
    \A k \in 1..Len(sent) :
        sent[k].handler # 0 =>
          /\ regLog[sent[k].handler]
               = [tag |-> sent[k].tag, id |-> sent[k].id, auto |-> TRUE]
          /\ \/ Registered(sent[k].tag, sent[k].id)
             \/ \E j \in LogIdx :
                   /\ log[j].tag = sent[k].tag /\ log[j].id = sent[k].id
                   /\ log[j].err = "nil"
                   /\ log[j].regs >= sent[k].handler
          /\ \A j \in LogIdx :
               (/\ log[j].tag = sent[k].tag /\ log[j].id = sent[k].id
                /\ log[j].regs >= sent[k].handler
                /\ log[j].err # "nil")
               => \E i \in 1..(j - 1) :
                     /\ log[i].tag = sent[k].tag /\ log[i].id = sent[k].id
                     /\ log[i].err = "nil"
                     /\ log[i].regs >= sent[k].handler

\* an envelope with a reply handler was posted and its reply dispatched
C4_Witness ==
    \E k \in 1..Len(sent), j \in LogIdx :
        /\ sent[k].handler # 0
        /\ \E n \in 1..Len(posted) : posted[n] = k
        /\ log[j].err = "nil"
        /\ log[j].handler = sent[k].handler

\* C5: while a handler that never returns is running, the listener still
\* takes a frame for any other registered key and spawns its handler, and
\* every spawned handler can begin to run.
C5_NonBlocking ==
    \A a \in Running \ readyDone :
        /\ \A tag \in UserTags, id \in IDs :
              (/\ Ops < MaxOps
               /\ <<tag, id>> # <<log[a].tag, log[a].id>>
               /\ Registered(tag, id))
              => ENABLED (/\ ReceiveFrame(tag, id)
                          /\ log'[Len(log')].err = "nil")
        /\ \A b \in Spawned \ Running : ENABLED StartGoroutine(b)

\* a handler is running, and the handler of a later frame for another key
\* was spawned and runs too
C5_Witness ==
    \E a, b \in Running \ readyDone :
        /\ a < b
        /\ <<log[a].tag, log[a].id>> # <<log[b].tag, log[b].id>>
        /\ \E m, n \in 1..Len(started) :
              m < n /\ started[m] = a /\ started[n] = b

\* the frames received with tag ReadyTag and ID InitID; the first of them is
\* the worker's ready signal
ReadyFrames ==
    {j \in LogIdx : log[j].tag = ReadyTag /\ log[j].id = InitID}
Min(S) == CHOOSE m \in S : \A x \in S : m <= x

\* C6 as stated: when the constructor failed and no ready frame came within
\* the timeout window, no handler is registered any more.
C6_NothingRegisteredAfterTimeout ==
    (/\ pc = "failed"
     /\ \A j \in ReadyFrames : ~log[j].inTime)
    => handlers = EmptyMap

\* C6 as amended: the constructor fails only once the 16 units have elapsed;
\* as long as no ready frame was received it cannot return the handle and,
\* the timer fired, can fail; the ready handler stays registered after the
\* failure, and a ready frame that arrives after the timer fired is still
\* dispatched to it.
C6_TimeoutLeavesReadyHandler ==
    /\ pc = "failed" => elapsed >= workerInitialConnectionTimeout
    /\ (pc = "waiting" /\ ReadyFrames = {})
       => /\ ~ENABLED SelectReady
          /\ elapsed >= workerInitialConnectionTimeout
               => ENABLED SelectTimeout
    /\ (pc = "failed" /\ ReadyFrames = {})
       => /\ Registered(ReadyTag, InitID)
          /\ handlers[ReadyTag][InitID] = ReadyFn
    /\ \A j \in ReadyFrames :
          (j = Min(ReadyFrames) /\ ~log[j].inTime)
          => log[j].err = "nil" /\ log[j].handler = ReadyFn

\* the constructor timed out with no ready frame received; the ready signal
\* came afterwards, found the handler, and its goroutine runs
C6_Witness ==
    /\ pc = "failed"
    /\ \E j \in ReadyFrames :
          /\ ~log[j].inTime
          /\ log[j].err = "nil"
          /\ j \in Running

C8_HandleOnlyAfterReady ==
    pc = "ready"
    => \E j \in ReadyFrames :
          /\ log[j].err = "nil"
          /\ log[j].handler = ReadyFn
          /\ j \in Running
          /\ j \in readyDone

\* the handle was returned after time had passed and a frame that is not
\* the ready signal had been received
C8_Witness ==
    /\ pc = "ready"
    /\ elapsed > 0
    /\ \E i \in LogIdx :
          /\ <<log[i].tag, log[i].id>> # <<ReadyTag, InitID>>
          /\ i < Min(ReadyFrames)

\* frames i and j both carry {echo, InitID, "hi"}; i was dispatched to an
\* auto-ID handler, which up to frame j is the only registration on the tag
C9_Scenario(i, j) ==
    /\ i < j
    /\ log[i].tag = EchoTag /\ log[j].tag = EchoTag
    /\ log[i].id = InitID /\ log[j].id = InitID
    /\ log[i].data = Hi /\ log[j].data = Hi
    /\ log[i].err = "nil"
    /\ regLog[log[i].handler].auto
    /\ {s \in 1..log[j].regs : regLog[s].tag = EchoTag} = {log[i].handler}

\* C9 as stated: the second delivery gets the id-level error.
C9_SecondIsIDNotFound ==
    \A i, j \in LogIdx : C9_Scenario(i, j) => log[j].err = "IDNotFound"

\* C9 as amended: the second delivery gets the tag-level error, the first
\* having removed the tag's last handler and with it the tag, and the
\* handler was invoked by the first delivery only.
C9_SecondIsHandlerNotFound ==
    \A i, j \in LogIdx :
        C9_Scenario(i, j)
        => /\ log[j].err = "HandlerNotFound"
           /\ {k \in LogIdx : log[k].err = "nil"
                               /\ log[k].handler = log[i].handler} = {i}

C9_Witness == \E i, j \in LogIdx : C9_Scenario(i, j)

\* position of goroutine i in the order in which the goroutines began
StartPos(i) == CHOOSE m \in 1..Len(started) : started[m] = i

\* the application's first call registered a handler for {event, InitID},
\* the only one at that key, and the first three frames were the events
\* {event, InitID, P1}, {event, InitID, P2}, {event, InitID, P3} for it
C10_Scenario ==
    /\ Len(regLog) >= 2
    /\ regLog[2] = [tag |-> EventTag, id |-> InitID, auto |-> FALSE]
    /\ Len(log) >= 4
    /\ \A k \in 2..4 :
          /\ log[k].tag = EventTag /\ log[k].id = InitID
          /\ log[k].data = EventPayloads[k - 1]
          /\ log[k].regs >= 2
    /\ RegsAt(EventTag, InitID, log[4].regs) = {2}

\* C10 as stated: the three invocations begin in the order of delivery.
C10_InvokedInDeliveryOrder ==
    C10_Scenario
    => \A a, b \in (2..4) \cap Running :
          a < b => StartPos(a) < StartPos(b)

\* C10 as amended: each of the three frames is dispatched to the handler
\* with its own payload, P1, P2, P3 in the order of delivery, one goroutine
\* per frame, and no goroutine begins twice.
C10_ThreeGoroutinesInOrderSpawned ==
    C10_Scenario
    => /\ \A k \in 2..4 :
             /\ log[k].err = "nil"
             /\ log[k].handler = 2
             /\ {j \in LogIdx : log[j].err = "nil" /\ log[j].handler = 2
                                 /\ log[j].data = log[k].data
                                 /\ j <= 4} = {k}
       /\ Running \subseteq Spawned
       /\ \A m, n \in 1..Len(started) : m # n => started[m] # started[n]

\* the three goroutines all run and the one for P3 began before the one
\* for P1
C10_Witness ==
    /\ C10_Scenario
    /\ (2..4) \subseteq Running
    /\ StartPos(4) < StartPos(2)

\* C14: what Unmarshal makes of the text Marshal wrote for a message with
\* a tag of valid UTF-8 is that message: no error, the same tag, the same
\* ID and the same payload bytes (nil stays nil, empty stays empty).
C14_RoundTrip ==
    (codec.stage = "decoded" /\ ValidUTF8(codec.msg.tag))
    => /\ codec.out.err = "nil"
       /\ codec.out.msg.tag = codec.msg.tag
       /\ codec.out.msg.id = codec.msg.id
       /\ codec.out.msg.data = codec.msg.data

\* a message with a tag, an ID above InitID and a payload whose base64 text
\* ends in padding went through the codec
C14_Witness ==
    /\ codec.stage = "decoded"
    /\ codec.msg = WorkerMessage(EchoTag, 1, Hi)
    /\ codec.wire.v[3].val.v = <<97, 71, 107, 61>>
    /\ codec.out.msg = codec.msg

\* the connection with a one-shot and a persistent handler registered and
\* nothing received since the ready signal
C11_StartOfWire ==
    /\ Len(regLog) = 3
    /\ regLog[2] = [tag |-> EchoTag, id |-> 0, auto |-> TRUE]
    /\ regLog[3] = [tag |-> EventTag, id |-> InitID, auto |-> FALSE]
    /\ handlers = (EchoTag :> (0 :> 2)) @@ (EventTag :> (InitID :> 3))
    /\ handlerIDs = (EchoTag :> 1)
    /\ Len(log) = 1 /\ started = <<1>> /\ sent = <<>>

\* the frame received last was dropped
Dropped == log[Len(log)].err # "nil"
\* the frames that were dropped: not decoded, or no handler at their key
DroppedFrames == {i \in LogIdx : log[i].err # "nil"}

\* C11: receiving a frame that fails to decode or finds no handler returns
\* the error and changes nothing but the record of the call: the maps, the
\* spawned and the running handlers and the state of the connection are as
\* before; and once frames were dropped, a frame for any key that has a
\* handler is still received and dispatched.
C11_DroppedFrameHasNoEffect ==
    /\ ~ENABLED (/\ ReceiveForeign \/ ReceiveEvent
                 /\ Dropped'
                 /\ ~(/\ handlers' = handlers
                      /\ handlerIDs' = handlerIDs
                      /\ Spawned' = Spawned
                      /\ started' = started
                      /\ pc' = pc))
    /\ \A i \in DroppedFrames : log[i].handler = 0
    /\ DroppedFrames # {}
       => \A tag \in UserTags, id \in IDs :
             (Ops < MaxOps /\ Registered(tag, id))
             => ENABLED (/\ ReceiveFrame(tag, id)
                         /\ log'[Len(log')].err = "nil")

\* frames that failed to decode, that had no handler for their tag and that
\* had none for their ID were dropped, and then a frame was dispatched
C11_Witness ==
    \E i, j \in LogIdx :
        /\ i < j
        /\ log[i].err \in {"SyntaxError", "UnmarshalTypeError",
                            "CorruptInputError"}
        /\ log[j].err = "nil"

\* the keys of the object's members, whatever their case
KeysOf(frame) ==
    IF frame.k = "object"
    THEN {FoldKey(frame.v[n].name) : n \in 1..Len(frame.v)}
    ELSE {}
\* the frame is an object that lacks the tag, the ID or the payload
AbsentField(frame) ==
    /\ frame.k = "object"
    /\ ~({TagKey, IDKey, DataKey} \subseteq KeysOf(frame))
\* the members the object has are of the kind of their field: a string for
\* the tag, a natural for the ID, base64 text or null for the payload
PresentFieldsFit(frame) ==
    \A n \in 1..Len(frame.v) :
        LET key == FoldKey(frame.v[n].name)
            val == frame.v[n].val
        IN  /\ key = TagKey => val.k = "str"
            /\ key = IDKey => val.k = "num" /\ val.v[1] >= 0
            /\ key = DataKey =>
                  \/ val.k = "null"
                  \/ val.k = "str" /\ DecodeString(val.v).ok

KeysIn(hs) == {<<tag, id>> \in Tags \X (0..(MaxOps + MaxID)) :
                  tag \in DOMAIN hs /\ id \in DOMAIN hs[tag]}

\* C16: in every state the connection reaches, RegisterHandler with an
\* explicit ID returns that ID, leaves the ID counters alone, and makes its
\* handler the entry at (tag, id), replacing the one that was there and
\* touching no other entry; and every frame that is dispatched goes to the
\* registration made last at its key, never to one that was replaced.
C16_ExplicitIDLastWriteWins ==
    /\ \A tag \in UserTags, id \in IDs :
          LET h == Len(regLog) + 1
              r == RegisterHandler(handlers, handlerIDs, tag, id, FALSE, h)
          IN  /\ r.id = id
              /\ r.handlerIDs = handlerIDs
              /\ KeysIn(r.handlers) = KeysIn(handlers) \cup {<<tag, id>>}
              /\ r.handlers[tag][id] = h
              /\ \A key \in KeysIn(handlers) \ {<<tag, id>>} :
                    r.handlers[key[1]][key[2]] = handlers[key[1]][key[2]]
    /\ \A j \in LogIdx :
          log[j].err = "nil"
          => log[j].handler = Max(RegsAt(log[j].tag, log[j].id, log[j].regs))

\* a handler registered with an explicit ID replaced the handler at its key,
\* and a later frame for the key was dispatched to it
C16_Witness ==
    \E s, t \in RegIdx, j \in LogIdx :
        /\ 1 < s /\ s < t
        /\ ~regLog[t].auto
        /\ regLog[s].tag = regLog[t].tag /\ regLog[s].id = regLog[t].id
        /\ \A i \in LogIdx : log[i].handler # s
        /\ Registered(regLog[t].tag, regLog[t].id)
        /\ handlers[regLog[t].tag][regLog[t].id] = t
        /\ log[j].err = "nil" /\ log[j].handler = t

\* the keys with the tag at which the map holds a handler
EntriesFor(hs, tag) == {key \in KeysIn(hs) : key[1] = tag}

\* the registrations in force when frame j was received: the last one made
\* at each key, unless a frame before j took it from a one-shot tag
InForce(j) ==
    {s \in 1..log[j].regs :
        /\ s = Max(RegsAt(regLog[s].tag, regLog[s].id, log[j].regs))
        /\ ~(/\ OneShot(regLog[s].tag)
             /\ \E i \in 1..(j - 1) : log[i].handler = s)}

\* C19: in every state the connection reaches, the lookup of (tag, id)
\* returns the tag-level error exactly when the map holds no handler for
\* the tag, the ID-level error exactly when it holds handlers for the tag
\* but none at the ID, and the handler at (tag, id) exactly when there is
\* one; and each frame received was answered according to the
\* registrations in force at its receipt.
C19_LookupErrors ==
    /\ \A tag \in Tags \cup {<<>>}, id \in 0..(MaxOps + MaxID) :
          LET r == GetHandler(handlers, tag, id)
          IN  /\ r.err = "HandlerNotFound" <=> EntriesFor(handlers, tag) = {}
              /\ r.err = "IDNotFound"
                    <=> /\ EntriesFor(handlers, tag) # {}
                        /\ <<tag, id>> \notin KeysIn(handlers)
              /\ r.err = "nil" <=> <<tag, id>> \in KeysIn(handlers)
              /\ r.err = "nil" => r.handler = handlers[tag][id]
    /\ \A j \in LogIdx :
          LET onTag == {s \in InForce(j) : regLog[s].tag = log[j].tag}
              atKey == {s \in onTag : regLog[s].id = log[j].id}
          IN  /\ log[j].err = "HandlerNotFound" <=> onTag = {}
              /\ log[j].err = "IDNotFound" <=> onTag # {} /\ atKey = {}
              /\ log[j].err = "nil" <=> atKey = {log[j].handler}

\* a one-shot tag lost its only handler to a delivery, and the next frame
\* for it got the tag-level error; a frame for a tag with a handler at
\* another ID got the ID-level error
C19_Witness ==
    \E i, j, k \in LogIdx :
        /\ i < j
        /\ log[i].tag = EchoTag /\ log[i].err = "nil"
        /\ log[j].tag = EchoTag /\ log[j].err = "HandlerNotFound"
        /\ log[k].err = "IDNotFound"

\* ---------------------------------------------------------------- C12
\* envelopes posted before Terminate() whose reply handler is still in the map
Outstanding ==
    {k \in 1..Len(posted) :
        /\ k <= termAt.posted
        /\ sent[posted[k]].handler # 0
        /\ Registered(sent[posted[k]].tag, sent[posted[k]].id)
        /\ handlers[sent[posted[k]].tag][sent[posted[k]].id]
              = sent[posted[k]].handler}

\* C12 as stated: after Terminate() was called no handler begins to run,
\* so the handlers that began to run are those that had begun at the call
C12_NoHandlerRunsAfterTerminate ==
    termAt.called => Len(started) = termAt.started

\* C12, amended: after Terminate() was called no frame is received, so no
\* handler is looked up, deleted or dispatched: a reply to a request
\* outstanding at the call never reaches its handler, which stays in the
\* map; a handler that begins to run after the call belongs to a frame
\* dispatched before it
C12_NoDispatchAfterTerminate ==
    termAt.called =>
        /\ Len(log) = termAt.log
        /\ ~ENABLED ReceiveReply
        /\ \A k \in 1..Len(started) : started[k] <= termAt.log

\* Terminate() was called with a request outstanding, whose handler is
\* still registered, and a handler dispatched before the call began to run
\* after it
C12_Witness ==
    /\ termAt.called
    /\ Outstanding # {}
    /\ Len(started) > termAt.started

\* ---------------------------------------------------------------- C13
\* C13 as stated: after Terminate() was called nothing is handed to the
\* worker's postMessage, neither for a send queued before the call nor for
\* a SendMessage issued after it
C13_NothingPostedAfterTerminate ==
    termAt.called => Len(posted) = termAt.posted

\* C13, amended: no envelope is sent or posted before the constructor
\* returns the handle or after it failed; after Terminate() was called
\* SendMessage still takes a call and queues its envelope, and every queued
\* envelope, of before the call or after, is still handed to postMessage;
\* no reply to them is received
C13_TrafficFromReadyOn ==
    /\ ~HasHandle => sent = <<>> /\ pending = {} /\ posted = <<>>
    /\ pc \in {"start", "created", "wired", "waiting", "failed"}
          => ~ENABLED SendMessage
    /\ termAt.called =>
          /\ Ops < MaxOps => ENABLED SendMessage
          /\ pending # {} => ENABLED PostMessage
          /\ ~ENABLED ReceiveReply

\* after Terminate() was called a send queued before the call was posted,
\* and a SendMessage issued after the call was posted too
C13_Witness ==
    /\ termAt.called
    /\ \E k \in (termAt.posted + 1)..Len(posted) : posted[k] <= termAt.sent
    /\ \E k \in (termAt.posted + 1)..Len(posted) : posted[k] > termAt.sent

\* ---------------------------------------------------------------- C17
\* goroutine t is in a call of SendMessage
InSend(t) ==
    calls[t].op = "SendMessage" /\ calls[t].pc \in {"lock", "locked", "post"}

\* C17: every call of SendMessage returns, although no postMessage
\* goroutine need ever run and no reply need ever arrive: past the
\* registration of its handler its return waits for nothing, and the
\* registration waits only for wh.mux, which its holder releases
C17_SendMessageReturns ==
    /\ [](\A t \in Goroutines :
            /\ calls[t].pc = "post" => ENABLED SendReturn(t)
            /\ InSend(t) /\ calls[t].pc = "lock" =>
                  mux = NoOne \/ ENABLED CallStep(mux))
    /\ \A t \in Goroutines : InSend(t) ~> ~InSend(t)

\* SendMessage has returned to the application with a reply handler and
\* without, none of the envelopes was posted and none answered, and a
\* handler of an earlier reply is still running
C17_Witness ==
    /\ calls[App].pc = "idle"
    /\ \E k \in pending : sent[k].handler # 0
    /\ \E k \in pending : sent[k].handler = 0
    /\ \E i \in Running \ readyDone : calls[Handler(i)].pc = "idle"

\* ---------------------------------------------------------------- C20
\* goroutine t called RegisterHandler or SendMessage from inside a handler
Reentered(t) ==
    t.kind = "handler" /\ calls[t].op \in {"RegisterHandler", "SendMessage"}

\* C20: wh.mux is held only between Lock and the end of the map lookup or
\* mutation, so by no goroutine that spawns a callback or posts; whenever a
\* goroutine waits for it, its holder can release it; and a handler that
\* calls RegisterHandler or SendMessage runs to its end
C20_MutexOnlyAroundMap ==
    /\ [](mux # NoOne => calls[mux].pc = "locked")
    /\ [](\A t \in Goroutines :
            calls[t].pc = "lock" => mux = NoOne \/ ENABLED CallStep(mux))
    /\ \A t \in Goroutines : Reentered(t) ~> calls[t].pc = "done"

\* a handler called RegisterHandler from inside its callback while the
\* listener held wh.mux for the next frame
C20_Witness ==
    \E i \in Running :
        /\ Reentered(Handler(i))
        /\ calls[Handler(i)].pc = "lock"
        /\ mux = Lis

C29_NoEmptyTag ==
    \A tag \in DOMAIN handlers : DOMAIN handlers[tag] # {}

\* a one-shot handler, the last of its tag, was dispatched and its tag is
\* no longer a key, while another tag still has a handler
C29_Witness ==
    /\ \E i \in 2..Len(log) :
          /\ log[i].err = "nil"
          /\ log[i].tag \in deleteAfterReceiving
          /\ log[i].tag \notin DOMAIN handlers
    /\ DOMAIN handlers # {}

\* ---------------------------------------------------------------- C24
\* the registration made by this step, if it made one
NewReg == regLog'[Len(regLog')]

\* C24: an auto-allocating registration never takes a key at which a
\* handler is registered, so it overwrites no live handler
C24_AutoIDNeverOverwrites ==
    [][(Len(regLog') = Len(regLog) + 1 /\ NewReg.auto)
          => ~Registered(NewReg.tag, NewReg.id)]_vars

\* ---------------------------------------------------------------- C22
\* the envelope of the SendMessage call made by this step, if it made one
NewSent == sent'[Len(sent')]

\* the sends that came with a reply handler
WithReply == {k \in 1..Len(sent) : sent[k].handler # 0}

\* C22: an envelope sent with a reply handler carries the caller's tag and
\* the ID the allocator returned for that tag in the call, the next of the
\* tag's counter; when the call returns the handler is in the map at that
\* tag and ID; and two such envelopes on one tag carry different IDs
C22_EnvelopeCarriesAllocatedID ==
    /\ [](\A k \in WithReply :
             /\ regLog[sent[k].handler].auto
             /\ regLog[sent[k].handler].tag = sent[k].tag
             /\ regLog[sent[k].handler].id = sent[k].id
             /\ sent[k].id = InitID + Cardinality(AutoBefore(sent[k].handler)))
    /\ [](\A k, n \in WithReply :
             (k # n /\ sent[k].tag = sent[n].tag) => sent[k].id # sent[n].id)
    /\ [][(Len(sent') = Len(sent) + 1 /\ NewSent.handler # 0)
             => /\ NewSent.tag \in DOMAIN handlers'
                /\ NewSent.id \in DOMAIN handlers'[NewSent.tag]
                /\ handlers'[NewSent.tag][NewSent.id] = NewSent.handler
                /\ handlerIDs'[NewSent.tag] = NewSent.id + 1]_vars

\* two envelopes with reply handlers were sent on one tag, with IDs 0 and
\* 1, and both handlers are registered at their envelopes' keys
C22_Witness ==
    \E k, n \in WithReply :
        /\ k < n
        /\ sent[k].tag = sent[n].tag
        /\ sent[k].id = InitID /\ sent[n].id = InitID + 1
        /\ Registered(sent[k].tag, sent[k].id)
        /\ Registered(sent[n].tag, sent[n].id)
        /\ handlers[sent[k].tag][sent[k].id] = sent[k].handler
        /\ handlers[sent[n].tag][sent[n].id] = sent[n].handler

\* ---------------------------------------------------------------- C23
\* the keys this step removes from the registry
Removed == KeysIn(handlers) \ KeysIn(handlers')

\* the frame this step received, if it received one
NewFrame == log'[Len(log')]

EntriesOf(hs, tag) == IF tag \in DOMAIN hs THEN hs[tag] ELSE EmptyMap
CounterOf(ids, tag) == IF tag \in DOMAIN ids THEN <<ids[tag]>> ELSE <<>>

\* the step leaves the handlers and the counter of every tag but T alone
OtherTagsUnchanged(T) ==
    \A tag \in Tags \ {T} :
        /\ EntriesOf(handlers', tag) = EntriesOf(handlers, tag)
        /\ CounterOf(handlerIDs', tag) = CounterOf(handlerIDs, tag)

\* C28: a registration and the receipt of a frame leave the handlers and
\* the counter of every other tag alone; the receipt of a frame and a
\* registration with an explicit ID change no counter; SendMessage without
\* a reply handler sends ID InitID and changes nothing in the registry
C28_ConfinedToTag ==
    [][/\ Len(regLog') = Len(regLog) + 1 =>
             /\ OtherTagsUnchanged(NewReg.tag)
             /\ ~NewReg.auto => handlerIDs' = handlerIDs
       /\ Len(log') = Len(log) + 1 =>
             /\ OtherTagsUnchanged(NewFrame.tag)
             /\ handlerIDs' = handlerIDs
       /\ (Len(sent') = Len(sent) + 1 /\ NewSent.handler = 0) =>
             /\ NewSent.id = InitID
             /\ handlers' = handlers
             /\ handlerIDs' = handlerIDs
             /\ regLog' = regLog]_vars

\* with handlers on two tags and a counter in the allocator, a handler was
\* registered with an explicit ID, an envelope was sent without a reply
\* handler, and a frame was dropped for want of a handler
C28_Witness ==
    /\ Cardinality(DOMAIN handlers) = 2
    /\ DOMAIN handlerIDs # {}
    /\ \E j \in 2..Len(regLog) : ~regLog[j].auto
    /\ \E k \in 1..Len(sent) : sent[k].handler = 0
    /\ \E i \in LogIdx : log[i].err \in NotFound

\* ---------------------------------------------------------------- C21
\* the deliveries that obtained the reply handler of the k-th send: frames
\* dispatched to it, and calls of the listener that hold it
GotHandler(k) ==
    {i \in LogIdx : log[i].err = "nil" /\ log[i].handler = sent[k].handler}
Holding(k) ==
    {l \in Listeners : /\ calls[l].pc \in {"found", "spawn"}
                       /\ calls[l].handler = sent[k].handler}
\* the frames for the key of the k-th send whose lookup has returned, the
\* handler having been registered before
LookedUp(k) ==
    {i \in LogIdx : /\ log[i].tag = sent[k].tag /\ log[i].id = sent[k].id
                    /\ log[i].regs >= sent[k].handler}

\* C21: of the deliveries for the key of a one-shot reply handler, however
\* they overlap, exactly one obtains the handler and every other gets a
\* not-found error; the lookup and the removal happen with wh.mux held, and
\* the entry is gone before the handler is spawned or runs
C21_ExactlyOneObtains ==
    /\ \A k \in WithReply :
          OneShot(sent[k].tag) =>
             /\ Cardinality(GotHandler(k)) + Cardinality(Holding(k)) <= 1
             /\ LookedUp(k) # {} =>
                   Cardinality(GotHandler(k)) + Cardinality(Holding(k)) = 1
             /\ \A i \in LookedUp(k) \ GotHandler(k) : log[i].err \in NotFound
             /\ (GotHandler(k) # {}
                 \/ \E l \in Holding(k) : calls[l].pc = "spawn")
                   => ~Registered(sent[k].tag, sent[k].id)
    /\ \A l \in Listeners : calls[l].pc \in {"locked", "found"} => mux = l

\* a call of the listener has obtained a one-shot handler and not yet
\* spawned it, and meanwhile another delivery for the same key was looked
\* up and got a not-found error
C21_Witness ==
    \E k \in WithReply, l \in Listeners :
        /\ OneShot(sent[k].tag)
        /\ l \in Holding(k)
        /\ calls[l].pc = "spawn"
        /\ \E i \in LookedUp(k) : log[i].err \in NotFound

\* ---------------------------------------------------------------- C25
\* C25 as stated: the envelopes are handed to postMessage in the order of
\* their SendMessage calls
C25_PostedInCallOrder ==
    \A a, b \in 1..Len(posted) : a < b => posted[a] < posted[b]

\* C25, amended: every envelope is handed to postMessage by a goroutine of
\* its own, once, after its SendMessage call; among the goroutines not yet
\* run any one can run next, so the order of the calls is not kept
C25_PostedOnceInAnyOrder ==
    /\ \A a, b \in 1..Len(posted) : a # b => posted[a] # posted[b]
    /\ {posted[a] : a \in 1..Len(posted)} \cup pending = 1..Len(sent)
    /\ {posted[a] : a \in 1..Len(posted)} \cap pending = {}
    /\ \A i \in pending :
          ENABLED (PostMessage /\ posted' = Append(posted, i))

\* the envelope of a later SendMessage call was handed to postMessage
\* before that of an earlier call, and both were posted
C25_Witness ==
    \E a, b \in 1..Len(posted) : a < b /\ posted[a] > posted[b]

\* ---------------------------------------------------------------- C26
\* the fields of a stored record other than its ID and its status
Content(obj) ==
    <<obj.ChannelId, obj.ParentMessageId, obj.SenderUsername, obj.Text,
      obj.Timestamp, obj.Lease>>

\* C26: UpdateSentStatus for a message ID that is in the store leaves the
\* channel ID, parent message ID, sender, text, timestamp and lease of
\* its record as they were, and leaves every other record as it was
C26_UpdateChangesOnlyStatus ==
    [][(/\ db'.last.op = "UpdateSentStatus"
        /\ EncodeToString(db'.last.id) \in DOMAIN db.messages)
          => \A key \in DOMAIN db.messages :
                /\ key \in DOMAIN db'.messages
                /\ IF key = EncodeToString(db'.last.id)
                   THEN Content(db'.messages[key]) = Content(db.messages[key])
                   ELSE db'.messages[key] = db.messages[key]]_vars

\* ---------------------------------------------------------------- C27
\* the i-th frame was dispatched to the ready closure, whose goroutine ends
\* when its send on the ready channel is received
ReadyTask(i) == i \in Spawned /\ log[i].handler = ReadyFn

\* C27: every goroutine spawned for the ready closure ends, so its send on
\* the ready channel is received
C27_ReadyTasksEnd ==
    \A i \in 1..(MaxStrays + 2) : ReadyTask(i) ~> (i \in readyDone)

====
